---- MODULE Spec2Model ----
(***************************************************************************)
(* Model of mptt/utils.py: the tree reconstructor get_cached_trees, the    *)
(* windowed iterator previous_current_next and the structural annotator    *)
(* tree_item_iterator.  Nodes are objects 1..MaxNodes, each with a level;  *)
(* a call receives a sequence of distinct nodes and is executed one loop   *)
(* iteration per step.                                                     *)
(***************************************************************************)
EXTENDS Integers, Sequences, FiniteSets, TLC

MaxNodes == 4
MaxLevel == 2

Nodes == 1..MaxNodes
Levels == 0..MaxLevel

\* Python's None as a node reference, and as the unset root_level.
None == 0
NoLevel == 0 - 1

VARIABLES
    level,                  \* node -> its mptt level (obj.get_level())
    call,                   \* which function is being executed
    status,                 \* "idle", "running", "returned", "raised"
                            \* (the ordering error), "failed" (any other)
    queryset,               \* get_cached_trees: the argument
    is_filtered,            \* get_cached_trees: queryset.query.has_filters()
    pos,                    \* index of the element the for loop takes next
    root_level,
    current_path,
    top_nodes,
    parent,                 \* node -> parent installed through parent_attr
    cached_children,        \* node -> _cached_children, for nodes that have it
    use_cached_ancestors,   \* nodes with _mptt_use_cached_ancestors = True
    items,                  \* tree_item_iterator: the argument
    ancestors,              \* tree_item_iterator: the ancestors flag
    structure,
    first_item_level,
    yielded,                \* the (item, structure copy) pairs yielded so far
    callback_calls          \* the arguments the callback was called with

reconVars == <<queryset, is_filtered, root_level, current_path, top_nodes,
               parent, cached_children, use_cached_ancestors>>
iterVars == <<items, ancestors, structure, first_item_level, yielded,
              callback_calls>>
vars == <<level, call, status, pos, reconVars, iterVars>>

\* The sequences of distinct nodes a caller can pass: the nodes of a subset,
\* in node order.
RECURSIVE SeqOfSet(_)
SeqOfSet(S) ==
    IF S = {} THEN <<>>
    ELSE LET m == CHOOSE x \in S : \A y \in S : x <= y
         IN <<m>> \o SeqOfSet(S \ {m})

Inputs == {SeqOfSet(S) : S \in SUBSET Nodes}

get_level(obj) == level[obj]

Init ==
    /\ level \in [Nodes -> Levels]
    /\ call = "none"
    /\ status = "idle"
    /\ pos = 1
    /\ queryset = <<>>
    /\ is_filtered = FALSE
    /\ root_level = NoLevel
    /\ current_path = <<>>
    /\ top_nodes = <<>>
    /\ parent = [n \in Nodes |-> None]
    /\ cached_children = [n \in {} |-> <<>>]
    /\ use_cached_ancestors = {}
    /\ items = <<>>
    /\ ancestors = FALSE
    /\ structure = [k \in {} |-> <<>>]
    /\ first_item_level = 0
    /\ yielded = <<>>
    /\ callback_calls = <<>>

(***************************************************************************)
(* get_cached_trees                                                        *)
(***************************************************************************)

\* Mutation: one element more than needed is removed from the path.
PopPath_TooFar(path, depth) ==
    IF Len(path) >= depth THEN SubSeq(path, 1, depth - 1) ELSE path

\* while len(current_path) > node_level - root_level: current_path.pop(-1)
RECURSIVE PopPath(_, _)
PopPath(path, depth) ==
    IF Len(path) > depth
    THEN PopPath(SubSeq(path, 1, Len(path) - 1), depth)
    ELSE path

\* Mutation: the root level is only ever set by the first node.
ResetsRootLevel_FirstOnly(rl, filtered, node_level) == rl = NoLevel

\* root_level is None or (is_filtered and node_level < root_level)
ResetsRootLevel(rl, filtered, node_level) ==
    rl = NoLevel \/ (filtered /\ node_level < rl)

\* Mutation: a node at the root level is rejected too.
RaisesOrderError_AtLevel(rl, filtered, node_level) ==
    /\ ~ResetsRootLevel(rl, filtered, node_level)
    /\ node_level <= rl

\* elif node_level < root_level: raise ValueError
RaisesOrderError(rl, filtered, node_level) ==
    /\ ~ResetsRootLevel(rl, filtered, node_level)
    /\ node_level < rl

\* obj._cached_children = []
ResetChildren(cc, obj) ==
    [n \in DOMAIN cc \cup {obj} |-> IF n = obj THEN <<>> ELSE cc[n]]

\* Mutation: the children list of the node is set up before the order check.
RaiseOrderError_AfterReset ==
    /\ status' = "raised"
    /\ cached_children' = ResetChildren(cached_children, queryset[pos])
    /\ UNCHANGED <<pos, root_level, current_path, top_nodes, parent,
                   use_cached_ancestors>>

\* raise ValueError(...): the pass stops before anything is written to obj.
RaiseOrderError ==
    /\ status' = "raised"
    /\ UNCHANGED <<pos, root_level, current_path, top_nodes, parent,
                   cached_children, use_cached_ancestors>>

\* Mutation: every attached node is marked.
MarksCachedAncestors_Always(rl) == TRUE

\* if root_level == 0: setattr(obj, "_mptt_use_cached_ancestors", True)
MarksCachedAncestors(rl) == rl = 0

\* Mutation: the child is inserted at the front of the list.
AddChild_Front(children, obj) == <<obj>> \o children

\* Mutation: the parent is taken from the bottom of the path.
PathParent_First(path) == path[1]

\* Mutation: the list of top nodes is replaced instead of extended.
AddTopNode_Replace(tops, obj) == <<obj>>

\* top_nodes.append(obj)
AddTopNode(tops, obj) == Append(tops, obj)

\* _parent = current_path[-1]
PathParent(path) == path[Len(path)]

\* _parent._cached_children.append(obj)
AddChild(children, obj) == Append(children, obj)

\* The caller invokes get_cached_trees(queryset); current_path and top_nodes
\* start empty, root_level is None.
CallGetCachedTrees ==
    /\ status = "idle"
    /\ \E qs \in Inputs, f \in BOOLEAN :
          /\ queryset' = qs
          /\ is_filtered' = f
    /\ call' = "get_cached_trees"
    /\ status' = "running"
    /\ pos' = 1
    /\ root_level' = NoLevel
    /\ current_path' = <<>>
    /\ top_nodes' = <<>>
    /\ UNCHANGED <<level, parent, cached_children, use_cached_ancestors, iterVars>>

\* One iteration of "for obj in queryset".
GetCachedTreesStep ==
    /\ call = "get_cached_trees"
    /\ status = "running"
    /\ pos <= Len(queryset)
    /\ LET obj == queryset[pos]
           node_level == get_level(obj)
       IN IF RaisesOrderError(root_level, is_filtered, node_level)
          THEN RaiseOrderError
          ELSE LET rl == IF ResetsRootLevel(root_level, is_filtered, node_level)
                         THEN node_level ELSE root_level
                   path == PopPath(current_path, node_level - rl)
                   fresh == ResetChildren(cached_children, obj)
               IN /\ root_level' = rl
                  /\ IF node_level = rl
                     THEN /\ top_nodes' = AddTopNode(top_nodes, obj)
                          /\ cached_children' = fresh
                          /\ current_path' = Append(path, obj)
                          /\ pos' = pos + 1
                          /\ UNCHANGED <<status, parent, use_cached_ancestors>>
                     ELSE IF path = <<>>
                     THEN \* current_path[-1] on an empty list: IndexError
                          /\ status' = "failed"
                          /\ cached_children' = fresh
                          /\ current_path' = path
                          /\ UNCHANGED <<pos, top_nodes, parent, use_cached_ancestors>>
                     ELSE LET p == PathParent(path)
                          IN /\ parent' = [parent EXCEPT ![obj] = p]
                             /\ cached_children' =
                                   [fresh EXCEPT ![p] = AddChild(@, obj)]
                             /\ use_cached_ancestors' =
                                   IF MarksCachedAncestors(rl)
                                   THEN use_cached_ancestors \cup {obj}
                                   ELSE use_cached_ancestors
                             /\ current_path' = Append(path, obj)
                             /\ pos' = pos + 1
                             /\ UNCHANGED <<status, top_nodes>>
    /\ UNCHANGED <<level, call, queryset, is_filtered, iterVars>>

\* The loop is exhausted (or the queryset was empty): return top_nodes.
GetCachedTreesReturn ==
    /\ call = "get_cached_trees"
    /\ status = "running"
    /\ pos > Len(queryset)
    /\ status' = "returned"
    /\ UNCHANGED <<level, call, pos, reconVars, iterVars>>

(***************************************************************************)
(* previous_current_next and tree_item_iterator                            *)
(***************************************************************************)

Min3(a, b, c) ==
    LET ab == IF a < b THEN a ELSE b
    IN IF ab < c THEN ab ELSE c

\* Mutation: the trailing None is not chained, so zip stops one triple early.
previous_current_next_NoTail(its) ==
    LET extend == <<None>> \o its
        prev == extend
        cur == SubSeq(extend, 2, Len(extend))
        nex == SubSeq(extend, 3, Len(extend))
        n == Min3(Len(prev), Len(cur), Len(nex))
    IN [i \in 1..n |-> <<prev[i], cur[i], nex[i]>>]

\* chain([None], items, [None]) is teed three ways; cur is advanced once and
\* nex twice; zip stops with the shortest of the three.
previous_current_next(its) ==
    LET extend == <<None>> \o its \o <<None>>
        prev == extend
        cur == Tail(extend)
        nex == Tail(Tail(extend))
        n == Min3(Len(prev), Len(cur), Len(nex))
    IN [i \in 1..n |-> <<prev[i], cur[i], nex[i]>>]

\* Mutation: the step is left out, so the range counts upwards.
RangeDown_NoStep(start, stop) ==
    [i \in 1..(IF stop > start THEN stop - start ELSE 0) |-> start + (i - 1)]

\* Mutation: the stop value is included in the range.
RangeDown_Inclusive(start, stop) ==
    [i \in 1..(IF start >= stop THEN start - stop + 1 ELSE 0) |-> start - (i - 1)]

\* list(range(start, stop, -1))
RangeDown(start, stop) ==
    [i \in 1..(IF start > stop THEN start - stop ELSE 0) |-> start - (i - 1)]

\* Mutation: only one element is removed whatever k is.
DropLast_One(lst, k) ==
    IF 1 >= Len(lst) THEN <<>> ELSE SubSeq(lst, 1, Len(lst) - 1)

\* lst[:-k] for k >= 1
DropLast(lst, k) ==
    IF k >= Len(lst) THEN <<>> ELSE SubSeq(lst, 1, Len(lst) - k)

\* Mutation: the label is inserted at the front of the list.
PushAncestor_Front(anc, label) == <<label>> \o anc

\* structure["ancestors"].append(label)
PushAncestor(anc, label) == Append(anc, label)

\* Mutation: an item at the same level as the one before it opens a level.
IsNewLevel_OrEqual(previous_level, current_level) ==
    previous_level <= current_level

\* getattr(previous, opts.level_attr) < current_level
IsNewLevel(previous_level, current_level) == previous_level < current_level

\* Mutation: the callback is called even when ancestors are not tracked.
CallsCallback_Always(track, previous, new_level) ==
    previous # None /\ new_level

\* The conditions under which callback(previous) is evaluated: previous is
\* truthy, ancestors is set and the item starts a new level.
CallsCallback(track, previous, new_level) ==
    previous # None /\ track /\ new_level

\* callback(node): the rendered label of a node (str by default).
callback(node) == [str |-> node]

\* The caller invokes tree_item_iterator(items, ancestors); structure is
\* the empty dict, first_item_level is 0.
CallTreeItemIterator ==
    /\ status = "idle"
    /\ \E its \in Inputs, anc \in BOOLEAN :
          /\ items' = its
          /\ ancestors' = anc
    /\ call' = "tree_item_iterator"
    /\ status' = "running"
    /\ pos' = 1
    /\ structure' = [k \in {} |-> <<>>]
    /\ first_item_level' = 0
    /\ yielded' = <<>>
    /\ callback_calls' = <<>>
    /\ UNCHANGED <<level, reconVars>>

\* One iteration of "for previous, current, next_ in ...", up to its yield.
TreeItemIteratorStep ==
    /\ call = "tree_item_iterator"
    /\ status = "running"
    /\ pos <= Len(previous_current_next(items))
    /\ LET triple == previous_current_next(items)[pos]
           previous == triple[1]
           current == triple[2]
           next_ == triple[3]
           current_level == level[current]
           new_level == IF previous # None
                        THEN IsNewLevel(level[previous], current_level)
                        ELSE TRUE
           trimmed == IF structure.closed_levels # <<>>
                      THEN DropLast(structure.ancestors,
                                    Len(structure.closed_levels))
                      ELSE structure.ancestors
           anc == IF previous # None
                  THEN IF new_level
                       THEN PushAncestor(trimmed, callback(previous))
                       ELSE trimmed
                  ELSE <<>>
           fil == IF previous # None THEN first_item_level ELSE current_level
           closed_levels == IF next_ # None
                            THEN RangeDown(current_level, level[next_])
                            ELSE RangeDown(current_level, fil - 1)
           frame == IF ancestors
                    THEN [new_level |-> new_level,
                          closed_levels |-> closed_levels,
                          ancestors |-> anc]
                    ELSE [new_level |-> new_level,
                          closed_levels |-> closed_levels]
       IN /\ structure' = frame
          /\ first_item_level' = fil
          /\ yielded' = Append(yielded, <<current, frame>>)
          /\ callback_calls' =
                IF CallsCallback(ancestors, previous, new_level)
                THEN Append(callback_calls, previous)
                ELSE callback_calls
    /\ pos' = pos + 1
    /\ UNCHANGED <<level, call, status, items, ancestors, reconVars>>

\* The triples are exhausted: the generator stops.
TreeItemIteratorStop ==
    /\ call = "tree_item_iterator"
    /\ status = "running"
    /\ pos > Len(previous_current_next(items))
    /\ status' = "returned"
    /\ UNCHANGED <<level, call, pos, reconVars, iterVars>>

Next ==
    \/ CallGetCachedTrees
    \/ GetCachedTreesStep
    \/ GetCachedTreesReturn
    \/ CallTreeItemIterator
    \/ TreeItemIteratorStep
    \/ TreeItemIteratorStop

Spec == Init /\ [][Next]_vars

(***************************************************************************)
(* Properties of get_cached_trees                                          *)
(***************************************************************************)

Returned == call = "get_cached_trees" /\ status = "returned"
Raised == call = "get_cached_trees" /\ status = "raised"

InputNodes == {queryset[i] : i \in 1..Len(queryset)}

\* The level of the i-th node of a sequence.
LevelAt(sq, i) == level[sq[i]]

\* The children list of a node, empty for a node that has none.
ChildrenOf(n) == IF n \in DOMAIN cached_children THEN cached_children[n] ELSE <<>>

Occurrences(sq, n) == Cardinality({i \in 1..Len(sq) : sq[i] = n})

InSeq(sq, n) == \E i \in 1..Len(sq) : sq[i] = n

\* Depth-first pre-order flattening of a list of nodes through the children
\* lists; depth bounds the nesting that is followed.
RECURSIVE PreOrder(_, _)
PreOrder(sq, depth) ==
    IF sq = <<>> \/ depth = 0 THEN <<>>
    ELSE <<Head(sq)>> \o PreOrder(ChildrenOf(Head(sq)), depth - 1)
                      \o PreOrder(Tail(sq), depth)

\* C1: when a pass returns, flattening the returned roots depth-first in
\* pre-order (roots in order, then each node's _cached_children recursively)
\* gives exactly the input sequence.
C1_RoundTrip ==
    Returned => PreOrder(top_nodes, MaxNodes + 1) = queryset

\* A returned pass with two roots and a node that is both a child and a parent.
C1_Witness ==
    /\ Returned
    /\ Len(top_nodes) >= 2
    /\ \E n \in InputNodes : parent[n] # None /\ ChildrenOf(n) # <<>>

\* C2: when a pass returns, every input node that is not in the returned
\* root list has a parent whose level is the node's level minus 1.
C2_ParentOneLevelUp ==
    Returned =>
        \A n \in InputNodes :
            ~InSeq(top_nodes, n) =>
                /\ parent[n] # None
                /\ level[parent[n]] = level[n] - 1

\* C3: an input in which some node is more than one level deeper than the
\* node before it never makes the pass return: it fails with the ordering
\* error.
C3_LevelJumpRaises ==
    (call = "get_cached_trees" /\ status # "idle"
        /\ \E i \in 2..Len(queryset) :
              LevelAt(queryset, i) > LevelAt(queryset, i - 1) + 1)
    => status # "returned"

\* The level sequence of the pre-order traversal of one tree with true
\* depths: the root at level 0 comes first, every other node is at least at
\* level 1 and at most one level below its predecessor.
IsTreePreOrder(sq) ==
    /\ sq # <<>>
    /\ LevelAt(sq, 1) = 0
    /\ \A i \in 2..Len(sq) :
          /\ LevelAt(sq, i) >= 1
          /\ LevelAt(sq, i) <= LevelAt(sq, i - 1) + 1

\* Index of the true parent of the i-th node of a pre-order traversal: the
\* closest earlier node one level up (0 for the root).
TrueParentIndex(sq, i) ==
    LET cands == {j \in 1..(i - 1) : LevelAt(sq, j) = LevelAt(sq, i) - 1}
    IN IF cands = {} THEN 0
       ELSE CHOOSE j \in cands : \A k \in cands : k <= j

IndexOf(sq, n) == CHOOSE i \in 1..Len(sq) : sq[i] = n

TrueParent(sq, n) ==
    LET j == TrueParentIndex(sq, IndexOf(sq, n))
    IN IF j = 0 THEN None ELSE sq[j]

TrueChildren(sq, n) ==
    LET IsChild(m) == TrueParent(sq, m) = n
    IN SelectSeq(sq, IsChild)

\* C4: for the complete pre-order traversal of a single tree with true
\* depths, the pass returns only the root, installs on every node its true
\* parent and caches its true children in traversal order.
C4_SingleTree ==
    (Returned /\ IsTreePreOrder(queryset)) =>
        /\ top_nodes = <<queryset[1]>>
        /\ \A n \in InputNodes :
              /\ parent[n] = TrueParent(queryset, n)
              /\ n \in DOMAIN cached_children
              /\ cached_children[n] = TrueChildren(queryset, n)

\* A returned pass over a tree with a grandchild and a node with two children.
C4_Witness ==
    /\ Returned
    /\ IsTreePreOrder(queryset)
    /\ \E n \in InputNodes : parent[n] # None /\ parent[parent[n]] # None
    /\ \E n \in InputNodes : Len(ChildrenOf(n)) >= 2

\* All nodes in node order: the pre-order traversal of the whole tree when
\* the levels describe one.
AllNodes == SeqOfSet(Nodes)

\* The true ancestors of a node in the tree that AllNodes traverses.
RECURSIVE TrueAncestors(_)
TrueAncestors(n) ==
    LET p == TrueParent(AllNodes, n)
    IN IF p = None THEN {} ELSE {p} \cup TrueAncestors(p)

\* C5: in filtered mode, for an input that is a subsequence of a tree's
\* pre-order traversal, every node none of whose true ancestors is in the
\* input is returned as a top-level node and is in no node's children list.
C5_OrphansAreTopLevel ==
    (Returned /\ is_filtered /\ IsTreePreOrder(AllNodes)) =>
        \A n \in InputNodes :
            (TrueAncestors(n) \cap InputNodes = {}) =>
                /\ InSeq(top_nodes, n)
                /\ parent[n] = None
                /\ \A m \in DOMAIN cached_children :
                      ~InSeq(cached_children[m], n)

\* C6: in unfiltered mode the ordering error is raised exactly at the first
\* node after the first whose level is strictly below the first node's
\* level: a raise happens at such a node with none before it, and a pass
\* that went past a node, or returned, saw no such node.
C6_RaisesIffBelowFirst ==
    (call = "get_cached_trees" /\ ~is_filtered) =>
        /\ status = "raised" =>
              /\ pos >= 2
              /\ pos <= Len(queryset)
              /\ LevelAt(queryset, pos) < LevelAt(queryset, 1)
        /\ \A j \in 2..Len(queryset) :
              (j < pos \/ status = "returned") =>
                  LevelAt(queryset, j) >= LevelAt(queryset, 1)

\* An unfiltered pass raised at its third node or later.
C6_Witness ==
    /\ Raised
    /\ ~is_filtered
    /\ pos >= 3

\* C7: when a pass returns, every input node occurs exactly once in the
\* returned root list and the children lists taken together.
RECURSIVE SumOccurrences(_, _)
SumOccurrences(S, n) ==
    IF S = {} THEN 0
    ELSE LET m == CHOOSE x \in S : TRUE
         IN Occurrences(cached_children[m], n) + SumOccurrences(S \ {m}, n)

C7_ExactlyOnePlace ==
    Returned =>
        \A n \in InputNodes :
            Occurrences(top_nodes, n)
                + SumOccurrences(DOMAIN cached_children, n) = 1

\* A returned pass with two roots and two nodes that have children.
C7_Witness ==
    /\ Returned
    /\ Len(top_nodes) >= 2
    /\ Cardinality({n \in InputNodes : ChildrenOf(n) # <<>>}) >= 2

(***************************************************************************)
(* Properties of tree_item_iterator                                        *)
(***************************************************************************)

Iterating == call = "tree_item_iterator"

\* The structure dict yielded with the i-th item.
FrameAt(i) == yielded[i][2]

\* The level at which the levels closed after the i-th item stop: the next
\* item's level, or one above the first item's level for the final item.
ClosesDownTo(i) ==
    IF i < Len(items) THEN LevelAt(items, i + 1) + 1 ELSE LevelAt(items, 1)

\* C8: the closed_levels yielded with an item descend in steps of one from
\* the item's level to the level just above the next item's level, or for
\* the final item to the first item's level inclusive; the list is empty
\* when that range is empty, and a single item closes exactly its own level.
C8_ClosedLevels ==
    Iterating =>
        \A i \in 1..Len(yielded) :
            LET cl == FrameAt(i).closed_levels
                cur == LevelAt(items, i)
            IN /\ yielded[i][1] = items[i]
               /\ (cl = <<>>) <=> (cur < ClosesDownTo(i))
               /\ cl # <<>> => /\ cl[1] = cur
                               /\ cl[Len(cl)] = ClosesDownTo(i)
               /\ \A k \in 1..(Len(cl) - 1) : cl[k + 1] = cl[k] - 1
               /\ Len(items) = 1 => cl = <<cur>>

\* The final item was yielded with two or more closed levels, and an
\* earlier item closed two levels before a next item.
C8_Witness ==
    /\ Iterating
    /\ Len(items) >= 3
    /\ Len(yielded) = Len(items)
    /\ Len(FrameAt(Len(items)).closed_levels) >= 2
    /\ \E i \in 1..(Len(items) - 1) : Len(FrameAt(i).closed_levels) >= 2

\* Depth-first-ordered input: each level is at most one deeper than the
\* level before it and never below the first item's level.
DepthFirstOrdered(sq) ==
    \A i \in 2..Len(sq) :
        /\ LevelAt(sq, i) <= LevelAt(sq, i - 1) + 1
        /\ LevelAt(sq, i) >= LevelAt(sq, 1)

\* C9 as stated: with ancestors enabled, for every yielded item the length
\* of the ancestors list is the item's level minus the first item's level.
C9_AncestorsLength ==
    (Iterating /\ ancestors) =>
        \A i \in 1..Len(yielded) :
            Len(FrameAt(i).ancestors) = LevelAt(items, i) - LevelAt(items, 1)

\* C9 amended: the same, for depth-first-ordered input.
C9_AncestorsLengthOrdered ==
    (Iterating /\ ancestors /\ DepthFirstOrdered(items)) =>
        \A i \in 1..Len(yielded) :
            Len(FrameAt(i).ancestors) = LevelAt(items, i) - LevelAt(items, 1)

\* An ordered input went two levels down and came back up by two levels.
C9_Witness ==
    /\ Iterating
    /\ ancestors
    /\ DepthFirstOrdered(items)
    /\ \E i \in 2..Len(yielded) :
          /\ Len(FrameAt(i - 1).ancestors) = 2
          /\ Len(FrameAt(i).ancestors) = 0

\* The labels of the chain of ancestors of the i-th item within the
\* sequence, root first: each ancestor is the closest earlier item one level
\* up.
RECURSIVE AncestorLabels(_, _)
AncestorLabels(sq, i) ==
    LET j == TrueParentIndex(sq, i)
    IN IF j = 0 THEN <<>>
       ELSE AncestorLabels(sq, j) \o <<[str |-> sq[j]]>>

\* C10: with ancestors enabled and depth-first-ordered input, the ancestors
\* yielded with an item are the rendered labels of its chain of ancestors
\* within the sequence, root first and immediate parent last.
C10_AncestorChain ==
    (Iterating /\ ancestors /\ DepthFirstOrdered(items)) =>
        \A i \in 1..Len(yielded) :
            FrameAt(i).ancestors = AncestorLabels(items, i)

\* An item with two ancestors was yielded, and later an item that still
\* has an ancestor after the item before it closed a level.
C10_Witness ==
    /\ Iterating
    /\ ancestors
    /\ DepthFirstOrdered(items)
    /\ \E i \in 2..Len(yielded) :
          /\ Len(FrameAt(i - 1).ancestors) = 2
          /\ FrameAt(i - 1).closed_levels # <<>>
          /\ FrameAt(i).ancestors # <<>>

IteratorDone == Iterating /\ status = "returned"

\* The number of closed levels yielded with the first k items.
RECURSIVE TotalClosed(_)
TotalClosed(k) ==
    IF k = 0 THEN 0 ELSE Len(FrameAt(k).closed_levels) + TotalClosed(k - 1)

\* The number of frames with new_level set among the first k.
Opened(k) == Cardinality({i \in 1..k : FrameAt(i).new_level})

\* The items among the first k - 1 whose next item is deeper / not deeper.
NextDeeper(sq, k) ==
    {i \in 1..(k - 1) : LevelAt(sq, i + 1) > LevelAt(sq, i)}
NextNotDeeper(sq, k) ==
    {i \in 1..(k - 1) : LevelAt(sq, i + 1) <= LevelAt(sq, i)}

\* C11 as stated: for depth-first-ordered input consumed to the end, the
\* closed_levels lengths add up to the first level minus the last level plus
\* the number of items whose next item is at a shallower or equal level.
C11_ClosedSum ==
    (IteratorDone /\ items # <<>> /\ DepthFirstOrdered(items)) =>
        TotalClosed(Len(yielded)) =
            (LevelAt(items, 1) - LevelAt(items, Len(items)))
                + Cardinality(NextNotDeeper(items, Len(items)))

\* C11 amended: for non-empty depth-first-ordered input consumed to the end,
\* the closed_levels lengths add up to one plus the number of items whose
\* next item is at a deeper level.
C11_ClosedSumOpened ==
    (IteratorDone /\ items # <<>> /\ DepthFirstOrdered(items)) =>
        TotalClosed(Len(yielded)) =
            1 + Cardinality(NextDeeper(items, Len(items)))

\* An ordered input that went deeper twice, closed a level before its
\* final item and ended above the first level was consumed to the end.
C11_Witness ==
    /\ IteratorDone
    /\ DepthFirstOrdered(items)
    /\ Len(items) >= 4
    /\ Cardinality(NextDeeper(items, Len(items))) >= 2
    /\ \E i \in 1..(Len(items) - 1) : FrameAt(i).closed_levels # <<>>
    /\ LevelAt(items, Len(items)) > LevelAt(items, 1)

\* C12: for depth-first-ordered input, after every yielded item the number
\* of closed levels so far is at most the number of frames with new_level
\* so far, and once the input is consumed the two are equal.
C12_OpenedClosedOnce ==
    (Iterating /\ DepthFirstOrdered(items)) =>
        /\ \A k \in 1..Len(yielded) : TotalClosed(k) <= Opened(k)
        /\ status = "returned" =>
              /\ Len(yielded) = Len(items)
              /\ TotalClosed(Len(yielded)) = Opened(Len(yielded))

\* An ordered input that opened three levels and had a same-level sibling
\* was consumed to the end.
C12_Witness ==
    /\ IteratorDone
    /\ DepthFirstOrdered(items)
    /\ Len(yielded) = Len(items)
    /\ Opened(Len(yielded)) >= 3
    /\ \E i \in 2..Len(items) : LevelAt(items, i) = LevelAt(items, i - 1)

\* C13: previous_current_next yields one triple per item, in order; the
\* current of triple i is item i, previous is None exactly for the first
\* triple and otherwise the item before, next is None exactly for the last
\* triple and otherwise the item after; the iterator built on it has
\* consumed a prefix of the triples, all of them once it stops, and an empty
\* input gives no triple.
C13_Triples ==
    Iterating =>
        LET triples == previous_current_next(items)
            n == Len(items)
        IN /\ Len(triples) = n
           /\ \A i \in 1..n :
                 /\ triples[i][2] = items[i]
                 /\ (triples[i][1] = None) <=> (i = 1)
                 /\ i > 1 => triples[i][1] = items[i - 1]
                 /\ (triples[i][3] = None) <=> (i = n)
                 /\ i < n => triples[i][3] = items[i + 1]
           /\ Len(yielded) <= n
           /\ \A i \in 1..Len(yielded) : yielded[i][1] = triples[i][2]
           /\ status = "returned" => Len(yielded) = n

\* Three or more triples were consumed and the iterator stopped.
C13_Witness ==
    /\ IteratorDone
    /\ Len(items) >= 3
    /\ Len(yielded) = Len(items)

\* The nodes the callback is expected to have been called with after k
\* items: for every item after the first that is deeper than the item before
\* it, that item before it.
RECURSIVE ExpectedCalls(_, _)
ExpectedCalls(sq, k) ==
    IF k <= 1 THEN <<>>
    ELSE IF LevelAt(sq, k) > LevelAt(sq, k - 1)
         THEN Append(ExpectedCalls(sq, k - 1), sq[k - 1])
         ELSE ExpectedCalls(sq, k - 1)

\* C18: with ancestors enabled the callback has been called exactly once
\* for every yielded item after the first that is deeper than the item
\* before it (once per push onto the ancestors list), on that item before it
\* and in that order; with ancestors disabled it is never called.
C18_CallbackPerPush ==
    Iterating =>
        /\ ancestors => callback_calls = ExpectedCalls(items, Len(yielded))
        /\ ~ancestors => callback_calls = <<>>

\* A run with ancestors stopped after two callback calls and an item that
\* was yielded without one.
C18_Witness ==
    /\ IteratorDone
    /\ ancestors
    /\ Len(yielded) = Len(items)
    /\ Len(callback_calls) >= 2
    /\ NextNotDeeper(items, Len(items)) # {}

(***************************************************************************)
(* Further properties of get_cached_trees                                  *)
(***************************************************************************)

\* The least level among the first k nodes of a sequence.
MinLevel(sq, k) ==
    CHOOSE l \in {LevelAt(sq, i) : i \in 1..k} :
        \A i \in 1..k : l <= LevelAt(sq, i)

\* The root level in force when the i-th node is processed: the least level
\* so far in filtered mode, the first node's level otherwise.
RootLevelAt(sq, filtered, i) ==
    IF filtered THEN MinLevel(sq, i) ELSE LevelAt(sq, 1)

\* The nodes whose level equals the root level in force when they are
\* processed, in arrival order.
ExpectedTopNodes(sq, filtered) ==
    LET AtRootLevel(n) == level[n] = RootLevelAt(sq, filtered, IndexOf(sq, n))
    IN SelectSeq(sq, AtRootLevel)

\* C14: a returned pass returns, in arrival order, exactly the nodes whose
\* level was the root level when they were processed; every node at the
\* least level of the input is among them, and every other node is parented
\* to the most recently seen node one level above it.
C14_RootsAndParents ==
    Returned =>
        /\ top_nodes = ExpectedTopNodes(queryset, is_filtered)
        /\ \A n \in InputNodes :
              /\ level[n] = MinLevel(queryset, Len(queryset))
                    => InSeq(top_nodes, n)
              /\ ~InSeq(top_nodes, n) =>
                    /\ TrueParent(queryset, n) # None
                    /\ parent[n] = TrueParent(queryset, n)

\* C15: a pass never fails other than with the ordering error: whenever the
\* next node is accepted at a level other than the root level, the path
\* left by the truncation is not empty.
C15_ParentAlwaysThere ==
    call = "get_cached_trees" =>
        /\ status # "failed"
        /\ (status = "running" /\ pos <= Len(queryset)) =>
              LET node_level == LevelAt(queryset, pos)
                  rl == IF ResetsRootLevel(root_level, is_filtered, node_level)
                        THEN node_level ELSE root_level
              IN (~RaisesOrderError(root_level, is_filtered, node_level)
                    /\ node_level # rl)
                 => PopPath(current_path, node_level - rl) # <<>>

\* A pass returned in which a node shallower than the one before it was
\* attached to a parent, and a node more than one level deeper than the one
\* before it too.
C15_Witness ==
    /\ Returned
    /\ \E i \in 2..Len(queryset) :
          /\ LevelAt(queryset, i) < LevelAt(queryset, i - 1)
          /\ parent[queryset[i]] # None
    /\ \E i \in 2..Len(queryset) :
          /\ LevelAt(queryset, i) > LevelAt(queryset, i - 1) + 1
          /\ parent[queryset[i]] # None

\* C17: in filtered mode the ordering error is never raised, after each
\* processed node root_level is the least level seen so far, and a node
\* below every level seen before it leaves current_path holding only itself.
C17_FilteredRootLevel ==
    (call = "get_cached_trees" /\ is_filtered) =>
        /\ status \in {"running", "returned"}
        /\ pos > 1 =>
              /\ root_level = MinLevel(queryset, pos - 1)
              /\ (\A j \in 1..(pos - 2) :
                      LevelAt(queryset, pos - 1) < LevelAt(queryset, j))
                 => current_path = <<queryset[pos - 1]>>

\* A filtered pass has just processed, as third node, a new minimum after a
\* node that had a child.
C17_Witness ==
    /\ call = "get_cached_trees"
    /\ is_filtered
    /\ pos = 4
    /\ LevelAt(queryset, 2) > LevelAt(queryset, 1)
    /\ LevelAt(queryset, 3) < LevelAt(queryset, 1)
    /\ parent[queryset[2]] = queryset[1]
    /\ current_path = <<queryset[3]>>

\* C19: a node carries the cached-ancestors mark exactly when the pass has
\* attached it to a parent while root_level was 0; roots, nodes attached
\* under another root level and nodes not yet processed are unmarked.
C19_MarkedIffAttachedAtZero ==
    call = "get_cached_trees" =>
        /\ use_cached_ancestors \subseteq InputNodes
        /\ \A i \in 1..Len(queryset) :
              queryset[i] \in use_cached_ancestors <=>
                  /\ i < pos
                  /\ parent[queryset[i]] # None
                  /\ ~InSeq(top_nodes, queryset[i])
                  /\ RootLevelAt(queryset, is_filtered, i) = 0

\* A pass returned that attached one node under a non-zero root level and
\* another under root level 0, and marked only the second.
C19_Witness ==
    /\ Returned
    /\ \E n \in InputNodes : parent[n] # None /\ n \notin use_cached_ancestors
    /\ \E n \in InputNodes : parent[n] # None /\ n \in use_cached_ancestors

\* The nodes of the input before the node at pos.
Processed == {queryset[j] : j \in 1..(pos - 1)}

\* C20: when the ordering error is raised, the offending node and the nodes
\* after it are untouched (no parent, no children list, no mark) and are in
\* no root or children list; only nodes before the offending one carry
\* links of the pass.
C20_RaiseLeavesRestUntouched ==
    Raised =>
        /\ \A j \in pos..Len(queryset) :
              LET n == queryset[j]
              IN /\ parent[n] = None
                 /\ n \notin DOMAIN cached_children
                 /\ n \notin use_cached_ancestors
                 /\ ~InSeq(top_nodes, n)
                 /\ \A m \in DOMAIN cached_children :
                       ~InSeq(cached_children[m], n)
        /\ DOMAIN cached_children = Processed
        /\ {n \in Nodes : parent[n] # None} \subseteq Processed
        /\ use_cached_ancestors \subseteq Processed

\* The error was raised at the third of four nodes, after the second was
\* attached to the first.
C20_Witness ==
    /\ Raised
    /\ pos = 3
    /\ Len(queryset) > pos
    /\ parent[queryset[2]] = queryset[1]

(***************************************************************************)
(* Repeated passes over the same nodes                                     *)
(***************************************************************************)

\* The caller invokes get_cached_trees again, on nodes that keep whatever
\* an earlier pass left on them; the locals of the call start afresh.
CallGetCachedTreesAgain ==
    /\ call = "get_cached_trees"
    /\ status \in {"returned", "raised"}
    /\ \E qs \in Inputs, f \in BOOLEAN :
          /\ queryset' = qs
          /\ is_filtered' = f
    /\ status' = "running"
    /\ pos' = 1
    /\ root_level' = NoLevel
    /\ current_path' = <<>>
    /\ top_nodes' = <<>>
    /\ UNCHANGED <<level, call, parent, cached_children, use_cached_ancestors,
                   iterVars>>

\* Passes of get_cached_trees, one after the other over the same nodes.
NextRepeated ==
    \/ CallGetCachedTrees
    \/ GetCachedTreesStep
    \/ GetCachedTreesReturn
    \/ CallGetCachedTreesAgain

\* The nodes are those of one tree, in tree order, freshly constructed.
InitTree ==
    /\ Init
    /\ IsTreePreOrder(AllNodes)

SpecRepeated == InitTree /\ [][NextRepeated]_vars

\* The fields and locals of a pass over freshly constructed nodes.
FreshNodes ==
    [root_level |-> NoLevel,
     current_path |-> <<>>,
     top_nodes |-> <<>>,
     parent |-> [n \in Nodes |-> None],
     cached_children |-> [n \in {} |-> <<>>],
     use_cached_ancestors |-> {}]

\* The pass over the first k nodes of a sequence, run on freshly constructed
\* nodes (for a sequence that does not raise).
RECURSIVE FreshPass(_, _, _)
FreshPass(sq, filtered, k) ==
    IF k = 0 THEN FreshNodes
    ELSE LET st == FreshPass(sq, filtered, k - 1)
             obj == sq[k]
             node_level == get_level(obj)
             rl == IF ResetsRootLevel(st.root_level, filtered, node_level)
                   THEN node_level ELSE st.root_level
             path == PopPath(st.current_path, node_level - rl)
             cc == ResetChildren(st.cached_children, obj)
         IN IF node_level = rl
            THEN [st EXCEPT !.root_level = rl,
                            !.current_path = Append(path, obj),
                            !.top_nodes = AddTopNode(@, obj),
                            !.cached_children = cc]
            ELSE LET p == PathParent(path)
                 IN [st EXCEPT !.root_level = rl,
                               !.current_path = Append(path, obj),
                               !.parent = [@ EXCEPT ![obj] = p],
                               !.cached_children =
                                   [cc EXCEPT ![p] = AddChild(@, obj)],
                               !.use_cached_ancestors =
                                   IF MarksCachedAncestors(rl)
                                   THEN @ \cup {obj} ELSE @]

\* C16: a pass that returns, whatever earlier passes left on its nodes,
\* returns the same root list and leaves every input node with the same
\* parent, children list and mark as the pass run on freshly constructed
\* nodes.
C16_PassesIndependent ==
    Returned =>
        LET fr == FreshPass(queryset, is_filtered, Len(queryset))
        IN /\ top_nodes = fr.top_nodes
           /\ \A n \in InputNodes :
                 /\ parent[n] = fr.parent[n]
                 /\ n \in DOMAIN cached_children
                 /\ cached_children[n] = fr.cached_children[n]
                 /\ (n \in use_cached_ancestors)
                       <=> (n \in fr.use_cached_ancestors)

====
